---- MODULE Spec2Model ----
(***************************************************************************)
(* Vimshottari Dasha period calculator of app.py.                          *)
(*                                                                         *)
(* Number representation.  The code works on floats; the model works on    *)
(* exact rationals scaled to integers:                                     *)
(*   - a longitude is counted in units of (360/27)/Grid degrees, so one    *)
(*     nakshatra width 360/27 is exactly W = Grid units and the full       *)
(*     circle 360 is 27 * W units;                                         *)
(*   - a balance (a fraction in the code) is counted in W-ths: the value   *)
(*     b of the model is the fraction b / W of the code;                   *)
(*   - a Julian day is counted in ticks of 1/(4*W) day, so 365.25 days are *)
(*     exactly 1461 * W ticks and every period length is a whole number    *)
(*     of ticks;                                                           *)
(*   - a calendar date (the (year, month, day) triple of swe.revjul) is    *)
(*     the number of the civil day, which changes at Julian-day            *)
(*     fraction .5.                                                        *)
(***************************************************************************)
EXTENDS Integers, Sequences, FiniteSets

\* ---------------------------------------------------------------- bounds
\* Longitude units per nakshatra.
Grid == 4
\* Anchor instants are the ticks 0..MaxJd (two civil-day changes at Grid = 4).
MaxJd == 31
\* How often the button is pressed on the same form inputs.
MaxRuns == 2
\* How far, in longitude units, an unnormalised longitude lies outside [0,360).
Span == 8

\* ------------------------------------------------------- program constants
\* 360/27 degrees, in longitude units.
W == Grid
\* Number of nakshatras: 360 / (360/27).
NumNakshatras == 27
\* 365.25 days, in ticks.
YearTicks == 1461 * W
\* One day, in ticks.
DayTicks == 4 * W

InitialYears == <<6, 16, 10, 7, 18, 17, 19, 20, 15>>
InitialNames ==
  <<"Ketu", "Venus", "Sun", "Moon", "Mars", "Rahu", "Jupiter", "Saturn", "Mercury">>

VARIABLES
  DASHA_YEARS,      \* module-level list, line 13
  DASHA_NAMES,      \* module-level list, line 25
  moon_lon,         \* the longitude handed to the calculator
  jd_ut,            \* the anchor instant handed to the calculator
  dasha_start_idx,  \* line 123; -1 before the first run
  dasha_balance,    \* line 124; -1 before the first run
  dasha_periods,    \* line 127; <<>> before the first run
  last_periods,     \* dasha_periods of the run before the latest one
  error,            \* text of st.error, "" when the handler did not fail
  runs              \* number of completed runs of the handler

vars == <<DASHA_YEARS, DASHA_NAMES, moon_lon, jd_ut, dasha_start_idx,
          dasha_balance, dasha_periods, last_periods, error, runs>>

\* The longitudes in [0, 360).
ValidLons == 0 .. (NumNakshatras * W - 1)
\* Longitudes as an unnormalising caller may pass them.
AnyLons == (0 - Span) .. (NumNakshatras * W + Span)
Anchors == 0 .. MaxJd

\* ------------------------------------------------------------- functions

\* swe.revjul(jd)[:3]: the civil date of a Julian day.
revjul(jd) == (jd + 2 * W) \div DayTicks

\* line 43: int(moon_longitude // (360/27))
nakshatra_mut(moon_longitude) == moon_longitude \div W + 1
nakshatra(moon_longitude) == moon_longitude \div W

\* line 47
get_dasha_start_index(moon_longitude) == (7 - nakshatra(moon_longitude)) % 9

\* lines 51-53, in W-ths: 1 - pos/W  is  (W - pos)/W
get_dasha_balance_mut(moon_longitude) == moon_longitude % W
get_dasha_balance(moon_longitude) == W - (moon_longitude % W)

\* lines 60-62: end of the first dasha (balance in W-ths)
first_end_jd_mut(start_index, balance, start_jd) ==
  start_jd + DASHA_YEARS[start_index + 1] * YearTicks
first_end_jd(start_index, balance, start_jd) ==
  start_jd + (DASHA_YEARS[start_index + 1] * balance * YearTicks) \div W

\* line 68
loop_idx_mut(start_index, i) == (start_index + 9 - i) % 9
loop_idx(start_index, i) == (start_index + i) % 9

\* lines 65-73: end_jd after iteration i of the loop (i = 0: before the loop)
RECURSIVE end_jd_after(_, _, _, _)
end_jd_after(start_index, balance, start_jd, i) ==
  IF i = 0
  THEN first_end_jd(start_index, balance, start_jd)
  ELSE end_jd_after(start_index, balance, start_jd, i - 1)
       + DASHA_YEARS[loop_idx(start_index, i) + 1] * YearTicks

\* lines 55-74: the list of 3-tuples, in the order appended
build_dasha_periods(start_index, balance, start_jd) ==
  [k \in 1 .. 9 |->
     IF k = 1
     THEN <<DASHA_NAMES[start_index + 1],
            revjul(end_jd_after(start_index, balance, start_jd, 0)),
            revjul(start_jd)>>
     ELSE <<DASHA_NAMES[loop_idx(start_index, k - 1) + 1],
            revjul(end_jd_after(start_index, balance, start_jd, k - 2)),
            revjul(end_jd_after(start_index, balance, start_jd, k - 1))>>]

\* lines 41-74 assign to neither table: DASHA_YEARS after a call
years_after_call_mut(start_index, balance) ==
  [DASHA_YEARS EXCEPT ![start_index + 1] = (@ * balance) \div W]
years_after_call(start_index, balance) == DASHA_YEARS

\* lines 88 and 136: a period is read as (name, start, end)
Lord(p) == p[1]
Start(p) == p[2]
End(p) == p[3]

\* ----------------------------------------------------------------- state

InitWith(lons) ==
  /\ DASHA_YEARS = InitialYears
  /\ DASHA_NAMES = InitialNames
  /\ moon_lon \in lons
  /\ jd_ut \in Anchors
  /\ dasha_start_idx = -1
  /\ dasha_balance = -1
  /\ dasha_periods = <<>>
  /\ last_periods = <<>>
  /\ error = ""
  /\ runs = 0

Init == InitWith(ValidLons)
InitAnyLon == InitWith(AnyLons)

\* lines 113-143: one press of "Calculate and Plot".  The ephemeris and the
\* form fix moon_lon and jd_ut; fetch_ok is whether ticker.history returned.
CalculateAndPlot(fetch_ok) ==
  /\ runs < MaxRuns
  /\ LET idx == get_dasha_start_index(moon_lon)
         bal == get_dasha_balance(moon_lon)
     IN /\ dasha_start_idx' = idx
        /\ dasha_balance' = bal
        /\ dasha_periods' = build_dasha_periods(idx, bal, jd_ut)
        /\ DASHA_YEARS' = years_after_call(idx, bal)
  /\ last_periods' = dasha_periods
  /\ error' = IF fetch_ok THEN "" ELSE "Error"
  /\ runs' = runs + 1
  /\ UNCHANGED <<DASHA_NAMES, moon_lon, jd_ut>>

Next ==
  \/ CalculateAndPlot(TRUE)
  \/ CalculateAndPlot(FALSE)

Spec == Init /\ [][Next]_vars
SpecAnyLon == InitAnyLon /\ [][Next]_vars

\* ---------------------------------------------------------------- claims

\* The handler has run at least once: a timeline has been returned.
Built == runs >= 1

RECURSIVE SumSeq(_)
SumSeq(s) == IF s = <<>> THEN 0 ELSE Head(s) + SumSeq(Tail(s))

\* Nominal year-length of a lord, looked up by its name.
YearsOf(name) ==
  DASHA_YEARS[CHOOSE k \in DOMAIN DASHA_NAMES : DASHA_NAMES[k] = name]

\* Length in ticks the claims give to period k (1-based) of the timeline.
DurationTicks(k) ==
  IF k = 1
  THEN (YearsOf(Lord(dasha_periods[1])) * dasha_balance * YearTicks) \div W
  ELSE YearsOf(Lord(dasha_periods[k])) * YearTicks

\* C1: the first period starts at the anchor instant and every period starts
\* where the one before it ends, each period read as (lord, start, end).
C1_Contiguous ==
  Built =>
    /\ Start(dasha_periods[1]) = revjul(jd_ut)
    /\ \A k \in 1 .. 8 : Start(dasha_periods[k + 1]) = End(dasha_periods[k])

\* C2: a longitude that is negative or >= 360 ends in a DomainError, and no
\* start index, balance or timeline is produced for it.
C2_DomainRejection ==
  (Built /\ moon_lon \notin ValidLons) =>
    /\ error = "DomainError"
    /\ dasha_start_idx = -1
    /\ dasha_balance = -1
    /\ dasha_periods = <<>>

\* C3: the nominal year-lengths of the lords of the 9 periods add up to 120,
\* whichever lord starts the cycle.
C3_Total120 ==
  Built =>
    SumSeq([k \in 1 .. Len(dasha_periods) |-> YearsOf(Lord(dasha_periods[k]))])
      = 120

\* C4: longitude 0 gives start index 0, the first lord of the sequence, a
\* balance of 1, and a second period that begins DASHA_YEARS[0] * 365.25 days
\* after the anchor.
C4_ZeroLongitude ==
  (Built /\ moon_lon = 0) =>
    /\ dasha_start_idx = 0
    /\ Lord(dasha_periods[1]) = DASHA_NAMES[1]
    /\ dasha_balance = W
    /\ Start(dasha_periods[2]) = revjul(jd_ut + DASHA_YEARS[1] * YearTicks)

C7_Duration ==
  Built =>
    \A k \in 1 .. 9 :
      /\ DurationTicks(k) > 0
      /\ End(dasha_periods[k]) >= Start(dasha_periods[k])
      /\ End(dasha_periods[k]) - Start(dasha_periods[k])
           \in {DurationTicks(k) \div DayTicks, DurationTicks(k) \div DayTicks + 1}

\* C8: the timeline has exactly 9 periods, period i is governed by
\* DASHA_NAMES[(start_index + i) mod 9], and each lord governs exactly one.
C8_Rotation ==
  Built =>
    /\ Len(dasha_periods) = 9
    /\ \A i \in 0 .. 8 :
         \E j \in 0 .. 8 :
           /\ (dasha_start_idx + i = j \/ dasha_start_idx + i = j + 9)
           /\ Lord(dasha_periods[i + 1]) = DASHA_NAMES[j + 1]
    /\ \A n \in {DASHA_NAMES[j] : j \in 1 .. 9} :
         Cardinality({k \in 1 .. 9 : Lord(dasha_periods[k]) = n}) = 1

\* C8 witness: a timeline whose rotation wraps past the end of the sequence.
C8_Witness ==
  /\ Built
  /\ dasha_start_idx = 7
  /\ Lord(dasha_periods[1]) = "Saturn"
  /\ Lord(dasha_periods[3]) = "Ketu"

\* C9: for a longitude in [0,360) the nakshatra index is floor(longitude / W),
\* lies in 0..26, and the start index lies in 0..8, inside both tables.
C9_IndexRanges ==
  (Built /\ moon_lon \in ValidLons) =>
    /\ nakshatra(moon_lon) \in 0 .. 26
    /\ nakshatra(moon_lon) * W <= moon_lon
    /\ moon_lon < (nakshatra(moon_lon) + 1) * W
    /\ dasha_start_idx \in 0 .. 8
    /\ dasha_start_idx + 1 \in DOMAIN DASHA_YEARS
    /\ dasha_start_idx + 1 \in DOMAIN DASHA_NAMES

\* C9 witness: a longitude in the last nakshatra, index 26.
C9_Witness ==
  /\ Built
  /\ moon_lon = NumNakshatras * W - 1
  /\ nakshatra(moon_lon) = 26
  /\ dasha_start_idx = 8

\* C10: the 9th period ends at anchor + 365.25 * (years of the first lord *
\* balance + the years of the other 8 lords) days.
C10_LastEnd ==
  Built =>
    End(dasha_periods[9]) =
      revjul(jd_ut
             + (DASHA_YEARS[dasha_start_idx + 1] * dasha_balance * YearTicks) \div W
             + (SumSeq(DASHA_YEARS) - DASHA_YEARS[dasha_start_idx + 1]) * YearTicks)

\* C10 witness: a timeline whose first period is truncated.
C10_Witness ==
  /\ Built
  /\ dasha_balance \in 1 .. (W - 1)
  /\ End(dasha_periods[9]) > revjul(jd_ut)

====
